---- MODULE Spec2Model ----
(***************************************************************************)
(* Ontology grounding search of aurelian:                                  *)
(*   search_terms             (agents/ontology_mapper/ontology_mapper_tools)*)
(*   search_ontology          (utils/ontology_utils)                       *)
(*   search_ontology_with_oak (agents/knowledge_agent/knowledge_agent_tools)*)
(* Strings are sequences of one-character strings, so that lower(),        *)
(* strip(), split() and the `in` substring test are computed, not assumed. *)
(* The oaklib adapter is an oracle: basic_search yields identifiers, labels *)
(* yields one (identifier, label) pair per identifier in the same order,   *)
(* and either call may raise.  The lru_cache of get_ontology_adapter holds *)
(* fewer keys here than its maxsize of 128, so nothing is evicted.         *)
(***************************************************************************)
EXTENDS Integers, Sequences, FiniteSets, TLC

VARIABLES
    labelOf,    \* the backend's term table: identifier -> label (adapter.labels)
    config,     \* ctx.deps: [ontologies, max_search_results]
    adapters,   \* keys memoized by @lru_cache on get_ontology_adapter
    pc,         \* "idle" | "called" | "answered" | "done"
    call,       \* the call in progress: function and arguments
    backend,    \* what the backend does when this call reaches it
    trace,      \* collaborator calls made by the call in progress, in order
    outcome,    \* what the call gave back: a returned value or a raised error
    prev,       \* the outcome of the same call made just before, if any
    entities,   \* batch grounding: the ExtractedEntity list
    annotators, \* batch grounding: (entity class, annotator) pairs of the template
    oracle,     \* batch grounding: the backend's response per (text, annotator)
    result      \* batch grounding: the GroundingResults returned

batchVars == <<entities, annotators, oracle, result>>

vars == <<labelOf, config, adapters, pc, call, backend, trace, outcome, prev,
          entities, annotators, oracle, result>>

----------------------------------------------------------------------------
(* Bounds of the model *)

MaxQueryLen == 6
MaxLabelLen == 5
MaxHits == 3
MaxLimit == 2
MaxMentions == 3
MaxEntities == 2
MaxFiles == 3
MaxFilePages == 3
MaxBudget == 3
MaxRouted == 2

----------------------------------------------------------------------------
(* Python str operations on character sequences *)

Whitespace == {" ", "\t"}

LowerCase == <<"a", "b", "d", "g", "h", "m", "n", "o", "p">>

UpperCase == <<"A", "B", "D", "G", "H", "M", "N", "O", "P">>

LowerChar(c) ==
    IF \E i \in 1..Len(UpperCase) : UpperCase[i] = c
        THEN LowerCase[CHOOSE i \in 1..Len(UpperCase) : UpperCase[i] = c]
    ELSE c

UpperChar(c) ==
    IF \E i \in 1..Len(LowerCase) : LowerCase[i] = c
        THEN UpperCase[CHOOSE i \in 1..Len(LowerCase) : LowerCase[i] = c]
    ELSE c

lower(s) == [i \in 1..Len(s) |-> LowerChar(s[i])]

upper(s) == [i \in 1..Len(s) |-> UpperChar(s[i])]

\* str.strip(): drop leading and trailing whitespace
strip(s) ==
    LET keep == {i \in 1..Len(s) : s[i] \notin Whitespace}
    IN  IF keep = {} THEN <<>>
        ELSE LET first == CHOOSE i \in keep : \A j \in keep : i <= j
                 last  == CHOOSE i \in keep : \A j \in keep : j <= i
             IN  SubSeq(s, first, last)

\* sub in s
Contains(sub, s) ==
    \E i \in 0..(Len(s) - Len(sub)) : SubSeq(s, i + 1, i + Len(sub)) = sub

\* str.split() with no separator: the maximal runs of non-whitespace
split(s) ==
    { SubSeq(s, i, j) : <<i, j>> \in
        { p \in (1..Len(s)) \X (1..Len(s)) :
            /\ p[1] <= p[2]
            /\ \A k \in p[1]..p[2] : s[k] \notin Whitespace
            /\ (p[1] = 1 \/ s[p[1] - 1] \in Whitespace)
            /\ (p[2] = Len(s) \/ s[p[2] + 1] \in Whitespace) } }

----------------------------------------------------------------------------
(* search_terms: classification of one (term_id, label) against the query *)

MinWordLen == 3

ConfExact == 95
ConfPartial == 85
ConfWord == 75
ConfSemantic == 65
ConfNone == 0

HasWordMatchAnyLength(query_lower, label_lower) ==
    \E word \in split(query_lower) : Contains(word, label_lower)

\* any(word in label_lower for word in query_lower.split() if len(word) > 3)
HasWordMatch(query_lower, label_lower) ==
    \E word \in split(query_lower) :
        Len(word) > MinWordLen /\ Contains(word, label_lower)

ClassifyTokenBeforeSubstring(query, label) ==
    LET query_lower == strip(lower(query))
        label_lower == lower(label)
    IN  IF label_lower = query_lower
            THEN [match_type |-> "exact_label", confidence |-> ConfExact]
        ELSE IF HasWordMatch(query_lower, label_lower)
            THEN [match_type |-> "word_match", confidence |-> ConfWord]
        ELSE IF Contains(query_lower, label_lower)
            THEN [match_type |-> "partial_label", confidence |-> ConfPartial]
        ELSE [match_type |-> "semantic_similarity", confidence |-> ConfSemantic]

ClassifyWordConfidenceSlip(query, label) ==
    LET query_lower == strip(lower(query))
        label_lower == lower(label)
    IN  IF label_lower = query_lower
            THEN [match_type |-> "exact_label", confidence |-> ConfExact]
        ELSE IF Contains(query_lower, label_lower)
            THEN [match_type |-> "partial_label", confidence |-> ConfPartial]
        ELSE IF HasWordMatch(query_lower, label_lower)
            THEN [match_type |-> "word_match", confidence |-> ConfSemantic]
        ELSE [match_type |-> "semantic_similarity", confidence |-> ConfSemantic]

\* lines 86-107: match_type and confidence of one label
Classify(query, label) ==
    LET query_lower == strip(lower(query))
        label_lower == lower(label)
    IN  IF label_lower = query_lower
            THEN [match_type |-> "exact_label", confidence |-> ConfExact]
        ELSE IF Contains(query_lower, label_lower)
            THEN [match_type |-> "partial_label", confidence |-> ConfPartial]
        ELSE IF HasWordMatch(query_lower, label_lower)
            THEN [match_type |-> "word_match", confidence |-> ConfWord]
        ELSE [match_type |-> "semantic_similarity", confidence |-> ConfSemantic]

----------------------------------------------------------------------------
(* The term-search backend (oaklib adapter), an oracle *)

Range(s) == {s[i] : i \in 1..Len(s)}

Min(a, b) == IF a <= b THEN a ELSE b

Max(a, b) == IF a >= b THEN a ELSE b

\* s[:n]
SliceTo(s, n) ==
    IF n >= 0 THEN SubSeq(s, 1, Min(n, Len(s)))
    ELSE SubSeq(s, 1, Max(0, Len(s) + n))

\* list(adapter.labels(results)): one (identifier, label) pair per identifier
Labels(results) == [i \in 1..Len(results) |-> <<results[i], labelOf[results[i]]>>]

SearchOntologyNoLimit(ids, limit) == Labels(ids)

\* search_ontology(adapter, query, limit), given what basic_search yields
search_ontology(ids, limit) ==
    LET results == IF limit # 0 THEN SliceTo(ids, limit) ELSE ids
    IN  Labels(results)

Tolerated == {"ValueError", "URLError", "KeyError"}

Errors == Tolerated \cup {"RuntimeError"}

Sites == {"get_adapter", "basic_search"}

----------------------------------------------------------------------------
(* search_terms *)

NoOutcome == [kind |-> "none", value |-> <<>>, error |-> <<>>]

Return(v) == [kind |-> "return", value |-> v, error |-> <<>>]

ReturnNone == [kind |-> "return_None", value |-> <<>>, error |-> <<>>]

Raise(type, msg) == [kind |-> "raise", value |-> <<>>, error |-> <<type, msg>>]

MsgInvalidId == "Invalid ontology ID, use an OBO style ID like cl, mondo, chebi, etc."

MsgNotAllowed == "Ontology not in allowed list"

MsgSearchError == "Error searching ontology: "

CuratorNote(match_type) ==
    CASE match_type = "exact_label" -> "Exact match to preferred term"
      [] match_type = "partial_label" -> "Partial match in term label"
      [] match_type = "word_match" -> "Word-level match via similarity"
      [] OTHER -> "Semantic similarity match - review recommended"

Enhance(ontology_id, query, hit) ==
    LET c == Classify(query, hit[2])
    IN  [id |-> hit[1], label |-> hit[2],
         match_type |-> c.match_type, confidence |-> c.confidence,
         curator_note |-> CuratorNote(c.match_type),
         ontology |-> upper(ontology_id)]

\* the label f"No matches found for '{query}'", as its three pieces
NoMatchLabel(query) == <<"No matches found for '", query, "'">>

\* f"No terms found in {ontology_id}. Try synonyms or broader/narrower terms."
NoMatchNote(ontology_id) ==
    <<"No terms found in ", ontology_id, ". Try synonyms or broader/narrower terms.">>

SentinelTrimmed(ontology_id, query) ==
    [id |-> "no_match", label |-> NoMatchLabel(strip(lower(query))),
     match_type |-> "none", confidence |-> ConfNone,
     curator_note |-> NoMatchNote(ontology_id),
     ontology |-> upper(ontology_id)]

Sentinel(ontology_id, query) ==
    [id |-> "no_match", label |-> NoMatchLabel(query),
     match_type |-> "none", confidence |-> ConfNone,
     curator_note |-> NoMatchNote(ontology_id),
     ontology |-> upper(ontology_id)]

EnhancedResultsReversed(ontology_id, query, results) ==
    IF results = <<>> THEN <<Sentinel(ontology_id, query)>>
    ELSE [i \in 1..Len(results) |->
            Enhance(ontology_id, query, results[Len(results) + 1 - i])]

\* lines 84-129: the enhanced list, or the sentinel when it is empty
EnhancedResults(ontology_id, query, results) ==
    IF results = <<>> THEN <<Sentinel(ontology_id, query)>>
    ELSE [i \in 1..Len(results) |-> Enhance(ontology_id, query, results[i])]

AllowedCaseSensitive(ontology_id, cfg) ==
    ontology_id \in {cfg.ontologies[i] : i \in 1..Len(cfg.ontologies)}

Allowed(ontology_id, cfg) ==
    lower(ontology_id) \in {lower(cfg.ontologies[i]) : i \in 1..Len(cfg.ontologies)}

SearchTermsCachedAdapterExhausted(ontology_id, query, resp, cfg, cache) ==
    IF Contains(<<" ">>, ontology_id)
        THEN [outcome |-> Raise("ModelRetry", MsgInvalidId),
              trace |-> <<>>, adapters |-> cache]
    ELSE IF ~Allowed(ontology_id, cfg)
        THEN [outcome |-> Raise("ModelRetry", MsgNotAllowed),
              trace |-> <<>>, adapters |-> cache]
    ELSE IF ontology_id \in cache
        THEN [outcome |-> Return(EnhancedResults(ontology_id, query, <<>>)),
              trace |-> <<"get_ontology_adapter", "basic_search", "labels">>,
              adapters |-> cache]
    ELSE IF resp.fail # "none"
        THEN [outcome |-> Raise("ModelRetry", MsgSearchError),
              trace |-> <<"get_ontology_adapter", "get_adapter">>,
              adapters |-> cache]
    ELSE [outcome |-> Return(EnhancedResults(ontology_id, query,
                        search_ontology(resp.ids, cfg.max_search_results))),
          trace |-> <<"get_ontology_adapter", "get_adapter", "basic_search", "labels">>,
          adapters |-> cache \cup {ontology_id}]

\* The whole handler: [outcome, trace, adapters] after search_terms(ctx, ontology_id, query)
search_terms(ontology_id, query, resp, cfg, cache) ==
    IF Contains(<<" ">>, ontology_id)
        THEN [outcome |-> Raise("ModelRetry", MsgInvalidId),
              trace |-> <<>>, adapters |-> cache]
    ELSE IF ~Allowed(ontology_id, cfg)
        THEN [outcome |-> Raise("ModelRetry", MsgNotAllowed),
              trace |-> <<>>, adapters |-> cache]
    ELSE IF ontology_id \notin cache /\ resp.fail # "none" /\ resp.at = "get_adapter"
        THEN [outcome |-> Raise("ModelRetry", MsgSearchError),
              trace |-> <<"get_ontology_adapter", "get_adapter">>,
              adapters |-> cache]
    ELSE LET opened == IF ontology_id \in cache THEN <<"get_ontology_adapter">>
                       ELSE <<"get_ontology_adapter", "get_adapter">>
             cache2 == cache \cup {ontology_id}
         IN  IF resp.fail # "none" /\ resp.at = "basic_search"
                 THEN [outcome |-> Raise("ModelRetry", MsgSearchError),
                       trace |-> opened \o <<"basic_search">>,
                       adapters |-> cache2]
             ELSE [outcome |-> Return(EnhancedResults(ontology_id, query,
                                 search_ontology(resp.ids, cfg.max_search_results))),
                   trace |-> opened \o <<"basic_search", "labels">>,
                   adapters |-> cache2]

----------------------------------------------------------------------------
(* search_ontology_with_oak *)

search_ontology_with_oak(term, ontology, n, resp) ==
    IF resp.fail # "none"
        THEN [outcome |-> IF resp.fail \in Tolerated THEN ReturnNone
                          ELSE Raise(resp.fail, resp.at),
              trace |-> IF resp.at = "get_adapter" THEN <<"get_adapter">>
                        ELSE <<"get_adapter", "basic_search">>]
    ELSE LET results == Labels(resp.ids)
         IN  [outcome |-> Return(IF n # 0 THEN SliceTo(results, n) ELSE results),
              trace |-> <<"get_adapter", "basic_search", "labels">>]

----------------------------------------------------------------------------
(* ground_entities_with_template_annotators *)

\* n=13 of the search made for each (entity, annotator)
BatchN == 13

NoBatchResult ==
    [entities_processed |-> <<>>, annotators_used |-> <<>>,
     successful_matches |-> <<>>, no_matches |-> <<>>,
     summary |-> <<>>, searches |-> <<>>]

\* "high" if entity_text.lower() in label.lower() else "medium"
MatchConfidence(entity_text, label) ==
    IF Contains(lower(entity_text), lower(label)) THEN "high" ELSE "medium"

\* await search_ontology_with_oak(entity_text, annotator, n=13, verbose=False)
SearchFor(entity_text, annotator) ==
    search_ontology_with_oak(entity_text, annotator, BatchN,
                             oracle[<<entity_text, annotator>>]).outcome

MatchFrom(entity_text, entry, hit) ==
    [entity |-> entity_text, entity_type |-> entry[1],
     ontology_id |-> hit[1], ontology_label |-> hit[2],
     annotator |-> entry[2],
     confidence |-> MatchConfidence(entity_text, hit[2])]

EntityMatchLastResult(entity_text, entry) ==
    LET o == SearchFor(entity_text, entry[2])
    IN  IF o.kind = "return" /\ o.value # <<>>
            THEN <<MatchFrom(entity_text, entry, o.value[Len(o.value)])>>
        ELSE <<>>

\* lines 259-286: the match of one (entity, annotator), if the search gave one;
\* None, [] and a raised exception all give none
EntityMatch(entity_text, entry) ==
    LET o == SearchFor(entity_text, entry[2])
    IN  IF o.kind = "return" /\ o.value # <<>>
            THEN <<MatchFrom(entity_text, entry, o.value[1])>>
        ELSE <<>>

RECURSIVE EntitySearchHintedOnly(_, _)
EntitySearchHintedOnly(entity, annots) ==
    IF annots = <<>> THEN [matches |-> <<>>, searches |-> <<>>]
    ELSE LET rest == EntitySearchHintedOnly(entity, Tail(annots))
             skip == entity.entity_type # "None"
                        /\ entity.entity_type # Head(annots)[1]
         IN  IF skip THEN rest
             ELSE [matches |-> EntityMatch(entity.text, Head(annots)) \o rest.matches,
                   searches |-> <<<<entity.text, Head(annots)[2]>>>> \o rest.searches]

RECURSIVE EntitySearchAbortsOnFailure(_, _)
EntitySearchAbortsOnFailure(entity, annots) ==
    IF annots = <<>> THEN [matches |-> <<>>, searches |-> <<>>]
    ELSE LET o == SearchFor(entity.text, Head(annots)[2])
             rest == IF o.kind # "return" THEN [matches |-> <<>>, searches |-> <<>>]
                     ELSE EntitySearchAbortsOnFailure(entity, Tail(annots))
         IN  [matches |-> EntityMatch(entity.text, Head(annots)) \o rest.matches,
              searches |-> <<<<entity.text, Head(annots)[2]>>>> \o rest.searches]

RECURSIVE EntitySearchFirstMatchOnly(_, _)
EntitySearchFirstMatchOnly(entity, annots) ==
    IF annots = <<>> THEN [matches |-> <<>>, searches |-> <<>>]
    ELSE LET m == EntityMatch(entity.text, Head(annots))
             rest == IF m # <<>> THEN [matches |-> <<>>, searches |-> <<>>]
                     ELSE EntitySearchFirstMatchOnly(entity, Tail(annots))
         IN  [matches |-> m \o rest.matches,
              searches |-> <<<<entity.text, Head(annots)[2]>>>> \o rest.searches]

\* lines 258-286: the inner loop over annotators.items() for one entity
RECURSIVE EntitySearch(_, _)
EntitySearch(entity, annots) ==
    IF annots = <<>> THEN [matches |-> <<>>, searches |-> <<>>]
    ELSE LET rest == EntitySearch(entity, Tail(annots))
         IN  [matches |-> EntityMatch(entity.text, Head(annots)) \o rest.matches,
              searches |-> <<<<entity.text, Head(annots)[2]>>>> \o rest.searches]

GroundStepLastAnnotatorDecides(acc, entity, annots) ==
    LET r == EntitySearch(entity, annots)
        last == EntityMatch(entity.text, annots[Len(annots)])
    IN  [successful_matches |-> acc.successful_matches \o r.matches,
         no_matches |-> IF last = <<>> THEN Append(acc.no_matches, entity.text)
                        ELSE acc.no_matches,
         searches |-> acc.searches \o r.searches]

GroundStepFlagNotReset(acc, entity, annots) ==
    LET r == EntitySearch(entity, annots)
    IN  [successful_matches |-> acc.successful_matches \o r.matches,
         no_matches |-> IF acc.successful_matches \o r.matches = <<>>
                            THEN Append(acc.no_matches, entity.text)
                        ELSE acc.no_matches,
         searches |-> acc.searches \o r.searches]

\* lines 253-289: one turn of the outer loop, entity_has_matches reset each turn
GroundStep(acc, entity, annots) ==
    LET r == EntitySearch(entity, annots)
    IN  [successful_matches |-> acc.successful_matches \o r.matches,
         no_matches |-> IF r.matches = <<>> THEN Append(acc.no_matches, entity.text)
                        ELSE acc.no_matches,
         searches |-> acc.searches \o r.searches]

RECURSIVE GroundLoopLastFirst(_, _, _)
GroundLoopLastFirst(acc, ents, annots) ==
    IF ents = <<>> THEN acc
    ELSE GroundStep(GroundLoopLastFirst(acc, Tail(ents), annots), Head(ents), annots)

\* lines 253-289: for entity_obj in entities
RECURSIVE GroundLoop(_, _, _)
GroundLoop(acc, ents, annots) ==
    IF ents = <<>> THEN acc
    ELSE GroundLoop(GroundStep(acc, Head(ents), annots), Tail(ents), annots)

\* lines 292-309: the summary, line by line
Summary(entity_texts, annots, matches, unmatched) ==
    << <<"GROUNDING RESULTS:">>,
       <<"Entities processed: ", Len(entity_texts)>>,
       <<"Annotators used: ", [j \in 1..Len(annots) |-> annots[j][1]]>>,
       <<"">> >>
    \o (IF matches # <<>>
            THEN << <<"SUCCESSFUL MATCHES", Len(matches)>> >>
                 \o [k \in 1..Len(matches) |->
                        <<"match", matches[k].entity, matches[k].entity_type,
                          matches[k].ontology_id, matches[k].ontology_label>>]
        ELSE <<>>)
    \o (IF unmatched # <<>>
            THEN << <<"NO MATCHES FOUND:">> >>
                 \o [k \in 1..Len(unmatched) |-> <<"unmatched", unmatched[k]>>]
        ELSE <<>>)

\* The whole handler, given the annotators parse_template_annotators found
ground_entities_with_template_annotators(ents, annots) ==
    IF annots = <<>>
        THEN [entities_processed |-> <<>>, annotators_used |-> <<>>,
              successful_matches |-> <<>>, no_matches |-> <<>>,
              summary |-> << <<"No annotators found in template. Cannot proceed with grounding.">> >>,
              searches |-> <<>>]
    ELSE LET entity_texts == [i \in 1..Len(ents) |-> ents[i].text]
             r == GroundLoop([successful_matches |-> <<>>, no_matches |-> <<>>,
                              searches |-> <<>>], ents, annots)
         IN  [entities_processed |-> entity_texts,
              annotators_used |-> annots,
              successful_matches |-> r.successful_matches,
              no_matches |-> r.no_matches,
              summary |-> Summary(entity_texts, annots,
                                  r.successful_matches, r.no_matches),
              searches |-> r.searches]

----------------------------------------------------------------------------
(* SimpleEntityEvaluator.evaluate *)

\* hasattr(entity, k) and getattr(entity, k) == v for k, v in expected.items()
EntityHasAll(entity, items) ==
    \A k \in DOMAIN items : k \in DOMAIN entity /\ entity[k] = items[k]

\* lines 32-41: the loop over ctx.output.entities; its body returns
EvaluateEntities(ents, items) ==
    IF ents = <<>> THEN "0.0"
    ELSE IF EntityHasAll(Head(ents), items) THEN "1.0" ELSE "0.0"

\* The whole handler; expected.given is FALSE for expected_output None
evaluate(expected, output) ==
    IF ~expected.given THEN "1.0"
    ELSE IF output.type = "ExtractionResult"
        THEN EvaluateEntities(output.entities, expected.items)
    ELSE "0.0"

----------------------------------------------------------------------------
(* get_gene_description *)

MsgNoGeneInfo == "No gene information found"

MsgGeneError == "Error retrieving gene description: "

\* `x and x.strip() != ""` of a client's answer: None and raise have no text
HasText(resp) == resp.kind = "text" /\ resp.text # <<>> /\ strip(resp.text) # <<>>

\* lines 189-196: is_uniprot_id(gene_id) once lookup_uniprot_accession has
\* replaced a gene symbol by the accession it found, if it found one
IsUniprotIdAfterLookup(id_is_uniprot, lookup) ==
    id_is_uniprot \/ lookup = "accession"

\* lines 225-232: what is returned for the information gathered
Describe(uniprot_info, ncbi_info) ==
    IF HasText(uniprot_info) /\ ncbi_info.kind = "text"
        THEN Return([format |-> "combined", uniprot |-> uniprot_info.text,
                     ncbi |-> ncbi_info.text])
    ELSE IF HasText(uniprot_info)
        THEN Return([format |-> "uniprot", uniprot |-> uniprot_info.text, ncbi |-> <<>>])
    ELSE IF ncbi_info.kind = "text"
        THEN Return([format |-> "ncbi", uniprot |-> <<>>, ncbi |-> ncbi_info.text])
    ELSE Raise("ModelRetry", MsgNoGeneInfo)

NoInfo == [kind |-> "none", text |-> <<>>]

\* The whole handler: [outcome, trace] of get_gene_description for the
\* answers c of the UniProt and NCBI clients
get_gene_description(c) ==
    LET direct == IsUniprotIdAfterLookup(c.id_is_uniprot, c.lookup)
        opened == IF direct THEN <<"retrieve">> ELSE <<>>
    IN  IF direct /\ HasText(c.retrieve)
            \* lines 196-200, 227-228
            THEN [outcome |-> Describe(c.retrieve, NoInfo), trace |-> opened]
        ELSE IF c.search.kind = "raise"
            \* line 208 raises, lines 234-237
            THEN [outcome |-> Raise("ModelRetry", MsgGeneError),
                  trace |-> Append(opened, "search")]
        ELSE IF HasText(c.search)
            \* line 211 is false: results is never assigned to uniprot_info
            THEN [outcome |-> Describe(NoInfo, c.ncbi),
                  trace |-> opened \o <<"search", "get_ncbi_gene_info">>]
        ELSE IF c.broad.kind = "raise"
            THEN [outcome |-> Raise("ModelRetry", MsgGeneError),
                  trace |-> opened \o <<"search", "search_broad">>]
        ELSE IF HasText(c.broad)
            THEN [outcome |-> Describe(c.broad, NoInfo),
                  trace |-> opened \o <<"search", "search_broad">>]
        ELSE [outcome |-> Describe(NoInfo, c.ncbi),
              trace |-> opened \o <<"search", "search_broad", "get_ncbi_gene_info">>]

----------------------------------------------------------------------------
(* process_pdf_files *)

\* `if max_pages`, `if page_limit_per_file`: None and 0 are both false
Truthy(opt) == opt.given /\ opt.value # 0

\* lines 147-183: the loop from file i on; out lists, per file read, how many
\* of its pages were extracted
RECURSIVE ProcessFrom(_, _, _, _, _, _)
ProcessFrom(i, files, max_pages, page_limit_per_file, total_pages_processed, out) ==
    IF i > Len(files) THEN out
    ELSE IF ~files[i].exists
        THEN ProcessFrom(i + 1, files, max_pages, page_limit_per_file,
                         total_pages_processed, out)
    ELSE LET num_pages == files[i].num_pages
             limited == IF Truthy(page_limit_per_file)
                            THEN Min(num_pages, page_limit_per_file.value)
                        ELSE num_pages
             pages_to_process ==
                IF Truthy(max_pages)
                        /\ total_pages_processed + limited > max_pages.value
                    THEN max_pages.value - total_pages_processed
                ELSE limited
             total == total_pages_processed + pages_to_process
             out2 == Append(out, [file |-> i, pages |-> pages_to_process])
         IN  IF pages_to_process <= 0 THEN out
             ELSE IF Truthy(max_pages) /\ total >= max_pages.value THEN out2
             ELSE ProcessFrom(i + 1, files, max_pages, page_limit_per_file,
                              total, out2)

\* The whole handler: the pages extracted, file by file
process_pdf_files(pdf_paths, max_pages, page_limit_per_file) ==
    ProcessFrom(1, pdf_paths, max_pages, page_limit_per_file, 0, <<>>)

----------------------------------------------------------------------------
(* preprocess_query, search_with_preprocessing *)

Mondo == <<"m", "o", "n", "d", "o">>

\* default_ontologies = ["mondo", "hp", "go"]
DefaultOntologies == <<Mondo, <<"h", "p">>, <<"g", "o">>>>

LowerAll(onts) == {lower(onts[i]) : i \in 1..Len(onts)}

\* lines 111-119: the router's searches whose lower-cased ontology is available
RECURSIVE RoutedSearches(_, _, _)
RoutedSearches(items, query, available_ontologies) ==
    IF items = <<>> THEN <<>>
    ELSE LET ontology == lower(Head(items).ontology)
             refined_query == IF Head(items).has_query THEN Head(items).query
                              ELSE query
             rest == RoutedSearches(Tail(items), query, available_ontologies)
         IN  IF ontology \in LowerAll(available_ontologies)
                 THEN <<<<ontology, refined_query>>>> \o rest
             ELSE rest

\* lines 121-127: the first default ontology that is available, if any
DefaultRouting(query, available_ontologies) ==
    LET avail == {j \in 1..Len(DefaultOntologies) :
                     DefaultOntologies[j] \in LowerAll(available_ontologies)}
    IN  IF avail = {} THEN <<>>
        ELSE <<<<DefaultOntologies[CHOOSE j \in avail : \A k \in avail : j <= k],
                 query>>>>

\* The whole handler: the (ontology, query) pairs for what the router agent
\* answered; a missing "ontology" is "", a missing "query" is the query itself
preprocess_query(query, available_ontologies, router) ==
    IF router.kind = "raise" THEN <<<<Mondo, query>>>>
    ELSE LET searches == IF router.has_searches
                             THEN RoutedSearches(router.searches, query,
                                                 available_ontologies)
                         ELSE <<>>
         IN  IF searches = <<>> THEN DefaultRouting(query, available_ontologies)
             ELSE searches

\* lines 159-162: the three keys added to each result
Routed(r, refined_query, query) ==
    [id |-> r.id, label |-> r.label, match_type |-> r.match_type,
     confidence |-> r.confidence, curator_note |-> r.curator_note,
     ontology |-> r.ontology,
     preprocessed_query |-> refined_query, original_query |-> query,
     routing_method |-> "intelligent_preprocessing"]

RECURSIVE SearchRoutedUntilFailure(_, _, _, _, _, _)
SearchRoutedUntilFailure(instructions, query, cfg, orc, cache, acc) ==
    IF instructions = <<>> THEN acc
    ELSE LET ontology_id == Head(instructions)[1]
             refined_query == Head(instructions)[2]
             r == search_terms(ontology_id, refined_query, orc[ontology_id], cfg, cache)
             searched == Append(acc.trace, <<ontology_id, refined_query>>)
         IN  IF r.outcome.kind = "raise"
                 THEN [outcome |-> acc.outcome, trace |-> searched,
                       adapters |-> r.adapters]
             ELSE SearchRoutedUntilFailure(Tail(instructions), query, cfg, orc,
                    r.adapters,
                    [outcome |-> Return(acc.outcome.value
                        \o [k \in 1..Len(r.outcome.value) |->
                              Routed(r.outcome.value[k], refined_query, query)]),
                     trace |-> searched, adapters |-> r.adapters])

\* lines 153-168: the loop over the search instructions
RECURSIVE SearchRouted(_, _, _, _, _, _)
SearchRouted(instructions, query, cfg, orc, cache, acc) ==
    IF instructions = <<>> THEN acc
    ELSE LET ontology_id == Head(instructions)[1]
             refined_query == Head(instructions)[2]
             r == search_terms(ontology_id, refined_query, orc[ontology_id], cfg, cache)
             searched == Append(acc.trace, <<ontology_id, refined_query>>)
         IN  SearchRouted(Tail(instructions), query, cfg, orc, r.adapters,
                [outcome |-> IF r.outcome.kind = "raise" THEN acc.outcome
                             ELSE Return(acc.outcome.value
                                \o [k \in 1..Len(r.outcome.value) |->
                                      Routed(r.outcome.value[k], refined_query, query)]),
                 trace |-> searched, adapters |-> r.adapters])

\* The whole handler: [outcome, trace, adapters]; trace lists the searches made
search_with_preprocessing(query, router, cfg, orc, cache) ==
    SearchRouted(preprocess_query(query, cfg.ontologies, router), query, cfg, orc,
                 cache, [outcome |-> Return(<<>>), trace |-> <<>>, adapters |-> cache])

----------------------------------------------------------------------------
(* SPIRES tools: get_spires_engine, extract_knowledge_from_text, change_template *)

\* the templates get_template_details knows
KnownTemplates ==
    {"biological_process.BiologicalProcess", "gocam.GoCamAnnotations",
     "drug.DrugMechanism"}

\* get_spires_engine: ModelRetry when the import, get_template_details of
\* ctx.deps.template_name or the SPIRESEngine constructor raises
EngineRaises(deps, env) ==
    env.import_fails \/ deps.template_name \notin KnownTemplates \/ env.engine_fails

\* ExtractedKnowledge, as far as the template and the outcome go
Extracted(deps, success, chunks) ==
    [template_used |-> deps.template_name, success |-> success,
     chunks_processed |-> chunks]

\* The whole handler: [outcome, deps] after extract_knowledge_from_text;
\* template is "None" when no override is given
extract_knowledge_from_text(deps, template, env) ==
    LET overridden == IF template # "None"
                          THEN [deps EXCEPT !.template_name = template]
                      ELSE deps
    IN  IF EngineRaises(overridden, env)
            \* lines 76, 125-134: the restore of line 80 is not reached
            THEN [outcome |-> Return(Extracted(overridden, FALSE, 0)),
                  deps |-> overridden]
        ELSE IF env.extract_fails
            \* lines 98/105 raise after the restore of lines 79-80
            THEN [outcome |-> Return(Extracted(deps, FALSE, 0)), deps |-> deps]
        ELSE [outcome |-> Return(Extracted(deps, TRUE, 1)), deps |-> deps]

ChangeTemplateBeforeValidation(deps, template_name, env) ==
    IF env.import_fails \/ template_name \notin KnownTemplates
        THEN [outcome |-> Return([success |-> FALSE, old_template |-> "",
                                  new_template |-> ""]),
              deps |-> [deps EXCEPT !.template_name = template_name]]
    ELSE [outcome |-> Return([success |-> TRUE,
                              old_template |-> deps.template_name,
                              new_template |-> template_name]),
          deps |-> [deps EXCEPT !.template_name = template_name]]

\* The whole handler: [outcome, deps] after change_template
change_template(deps, template_name, env) ==
    IF env.import_fails \/ template_name \notin KnownTemplates
        THEN [outcome |-> Return([success |-> FALSE, old_template |-> "",
                                  new_template |-> ""]),
              deps |-> deps]
    ELSE [outcome |-> Return([success |-> TRUE,
                              old_template |-> deps.template_name,
                              new_template |-> template_name]),
          deps |-> [deps EXCEPT !.template_name = template_name]]

----------------------------------------------------------------------------
(* Inputs *)

\* lower() acts on each character alone, so one cased letter and the blank
\* already give every pattern of equality, containment and tokens
Letters == {"A", " "}

\* every string over Letters of length at most n
Strings(n) == UNION {[1..k -> Letters] : k \in 0..n}

Ids == {"T1", "T2", "T3"}

\* a small ontology: T1 "Abab", T2 "ba abab", T3 " ba"
TermTable ==
    [i \in Ids |->
        CASE i = "T1" -> <<"A", "b", "a", "b">>
          [] i = "T2" -> <<"b", "a", " ", "a", "b", "a", "b">>
          [] OTHER    -> <<" ", "b", "a">>]

\* "abab", " ABAB<TAB>", "abab bb", " ba", "", "  "
Queries ==
    { <<"a", "b", "a", "b">>,
      <<" ", "A", "B", "A", "B", "\t">>,
      <<"a", "b", "a", "b", " ", "b", "b">>,
      <<" ", "b", "a">>,
      <<>>,
      <<" ", " ">> }

\* "hp", "HP", "h p", "h<TAB>p", "bb"
OntologyIds ==
    { <<"h", "p">>, <<"H", "P">>, <<"h", " ", "p">>, <<"h", "\t", "p">>, <<"b", "b">> }

\* config.ontologies
ConfigOntologies == << <<"h", "p">>, <<"g", "o">> >>

HitSeqs == UNION {[1..k -> Ids] : k \in 0..MaxHits}

NoResponse == [fail |-> "none", at |-> "none", ids |-> <<>>]

Responses ==
    {[fail |-> "none", at |-> "none", ids |-> h] : h \in HitSeqs}
    \cup {[fail |-> e, at |-> a, ids |-> <<>>] : e \in Errors, a \in Sites}

NoCall == [fn |-> "none", ontology |-> <<>>, query |-> <<>>, n |-> 0]

\* ExtractedEntity(text, entity_type): "abab" without a type, "ba" typed
\* Phenotype, "abab" typed Disease
EntityPool ==
    { [text |-> <<"a", "b", "a", "b">>, entity_type |-> "None"],
      [text |-> <<"b", "a">>,           entity_type |-> "Phenotype"],
      [text |-> <<"a", "b", "a", "b">>, entity_type |-> "Disease"] }

EntityLists == UNION {[1..k -> EntityPool] : k \in 0..MaxMentions}

BatchTexts == {e.text : e \in EntityPool}

BatchAnnotators == {"sqlite:obo:hp", "sqlite:obo:mondo"}

\* what parse_template_annotators can give: nothing, one class, two classes
\* with their own annotators, two classes sharing one annotator
AnnotatorMaps ==
    { <<>>,
      << <<"Phenotype", "sqlite:obo:hp">> >>,
      << <<"Phenotype", "sqlite:obo:hp">>, <<"Disease", "sqlite:obo:mondo">> >>,
      << <<"Phenotype", "sqlite:obo:hp">>, <<"Trait", "sqlite:obo:hp">> >> }

\* no hit, two hits, a tolerated error, another error
BatchResponses ==
    { [fail |-> "none", at |-> "none", ids |-> <<>>],
      [fail |-> "none", at |-> "none", ids |-> <<"T3", "T1">>],
      [fail |-> "ValueError", at |-> "get_adapter", ids |-> <<>>],
      [fail |-> "RuntimeError", at |-> "basic_search", ids |-> <<>>] }

BatchCall ==
    [fn |-> "ground_entities_with_template_annotators",
     ontology |-> <<>>, query |-> <<>>, n |-> BatchN]

----------------------------------------------------------------------------
(* The state machine: a caller issues one call at a time *)

Init ==
    /\ labelOf = TermTable
    /\ config \in {[ontologies |-> ConfigOntologies, max_search_results |-> m] :
                     m \in 1..MaxLimit}
    /\ adapters = {}
    /\ pc = "idle"
    /\ call = NoCall
    /\ backend = NoResponse
    /\ trace = <<>>
    /\ outcome = NoOutcome
    /\ prev = NoOutcome
    /\ entities = <<>>
    /\ annotators = <<>>
    /\ oracle = <<>>
    /\ result = NoBatchResult

CallSearchTerms ==
    /\ pc \in {"idle", "done"}
    /\ \E o \in OntologyIds, q \in Queries :
        call' = [fn |-> "search_terms", ontology |-> o, query |-> q, n |-> 0]
    /\ pc' = "called"
    /\ backend' = NoResponse
    /\ trace' = <<>>
    /\ outcome' = NoOutcome
    /\ UNCHANGED <<labelOf, config, adapters, prev, batchVars>>

CallSearchOntologyWithOak ==
    /\ pc \in {"idle", "done"}
    /\ \E o \in OntologyIds, q \in Queries, n \in 0..MaxLimit :
        call' = [fn |-> "search_ontology_with_oak", ontology |-> o, query |-> q, n |-> n]
    /\ pc' = "called"
    /\ backend' = NoResponse
    /\ trace' = <<>>
    /\ outcome' = NoOutcome
    /\ UNCHANGED <<labelOf, config, adapters, prev, batchVars>>

\* the oracle fixes what it will do if the pending call reaches it
BackendAnswers ==
    /\ pc = "called"
    /\ backend' \in Responses
    /\ pc' = "answered"
    /\ UNCHANGED <<labelOf, config, adapters, call, trace, outcome, prev, batchVars>>

SearchTerms ==
    /\ pc = "answered"
    /\ call.fn = "search_terms"
    /\ LET r == search_terms(call.ontology, call.query, backend, config, adapters)
       IN  /\ outcome' = r.outcome
           /\ trace' = r.trace
           /\ adapters' = r.adapters
    /\ pc' = "done"
    /\ UNCHANGED <<labelOf, config, call, backend, prev, batchVars>>

SearchOntologyWithOak ==
    /\ pc = "answered"
    /\ call.fn = "search_ontology_with_oak"
    /\ LET r == search_ontology_with_oak(call.query, call.ontology, call.n, backend)
       IN  /\ outcome' = r.outcome
           /\ trace' = r.trace
    /\ pc' = "done"
    /\ UNCHANGED <<labelOf, config, adapters, call, backend, prev, batchVars>>

Next ==
    \/ CallSearchTerms
    \/ CallSearchOntologyWithOak
    \/ BackendAnswers
    \/ SearchTerms
    \/ SearchOntologyWithOak

Spec == Init /\ [][Next]_vars

(* Classification alone: one search_terms call whose backend returns one term,
   for every query and every label within the length bounds *)
InitClassify ==
    /\ \E l \in Strings(MaxLabelLen) : labelOf = [i \in Ids |-> l]
    /\ config = [ontologies |-> ConfigOntologies, max_search_results |-> 1]
    /\ adapters = {}
    /\ pc = "answered"
    /\ \E q \in Strings(MaxQueryLen) :
        call = [fn |-> "search_terms", ontology |-> <<"h", "p">>, query |-> q, n |-> 0]
    /\ backend = [fail |-> "none", at |-> "none", ids |-> <<"T1">>]
    /\ trace = <<>>
    /\ outcome = NoOutcome
    /\ prev = NoOutcome
    /\ entities = <<>>
    /\ annotators = <<>>
    /\ oracle = <<>>
    /\ result = NoBatchResult

NextClassify == SearchTerms

SpecClassify == InitClassify /\ [][NextClassify]_vars

\* One batch grounding call: every entity list, annotator mapping and backend
InitBatch ==
    /\ labelOf = TermTable
    /\ config = [ontologies |-> ConfigOntologies, max_search_results |-> 1]
    /\ adapters = {}
    /\ pc = "called"
    /\ call = BatchCall
    /\ backend = NoResponse
    /\ trace = <<>>
    /\ outcome = NoOutcome
    /\ prev = NoOutcome
    /\ entities \in EntityLists
    /\ annotators \in AnnotatorMaps
    /\ oracle \in [BatchTexts \X BatchAnnotators -> BatchResponses]
    /\ result = NoBatchResult

GroundEntities ==
    /\ pc = "called"
    /\ call.fn = "ground_entities_with_template_annotators"
    /\ result' = ground_entities_with_template_annotators(entities, annotators)
    /\ pc' = "done"
    /\ UNCHANGED <<labelOf, config, adapters, call, backend, trace, outcome,
                   prev, entities, annotators, oracle>>

NextBatch == GroundEntities

SpecBatch == InitBatch /\ [][NextBatch]_vars

\* One search made twice over: the same arguments, the same backend, and
\* whatever adapters earlier calls left in the cache
InitRepeat ==
    /\ labelOf = TermTable
    /\ config \in {[ontologies |-> ConfigOntologies, max_search_results |-> l] :
                        l \in 1..MaxLimit}
    /\ adapters \in SUBSET {<<"h", "p">>, <<"H", "P">>}
    /\ pc = "answered"
    /\ \/ \E o \in OntologyIds, q \in Queries :
            call = [fn |-> "search_terms", ontology |-> o, query |-> q, n |-> 0]
       \/ \E o \in OntologyIds, q \in Queries, n \in 0..MaxLimit :
            call = [fn |-> "search_ontology_with_oak", ontology |-> o, query |-> q, n |-> n]
    /\ backend \in Responses
    /\ trace = <<>>
    /\ outcome = NoOutcome
    /\ prev = NoOutcome
    /\ entities = <<>>
    /\ annotators = <<>>
    /\ oracle = <<>>
    /\ result = NoBatchResult

\* the caller keeps the first output and makes the same call again; the
\* backend answers as it did
RepeatCall ==
    /\ pc = "done"
    /\ prev = NoOutcome
    /\ prev' = outcome
    /\ pc' = "answered"
    /\ trace' = <<>>
    /\ outcome' = NoOutcome
    /\ UNCHANGED <<labelOf, config, adapters, call, backend, batchVars>>

NextRepeat == SearchTerms \/ SearchOntologyWithOak \/ RepeatCall

SpecRepeat == InitRepeat /\ [][NextRepeat]_vars

\* SimpleEntity: the attributes an expected output is compared with
EvalEntities ==
    [text : {"water", "heme"}, ontology_id : {"CHEBI:15377", "CHEBI:5478", "None"}]

\* expected_output: None, or a dict over some of these keys; "synonym" is
\* no attribute of SimpleEntity
ExpectedItems ==
    UNION {[ks -> {"water", "CHEBI:15377", "CHEBI:5478"}] :
              ks \in SUBSET {"text", "ontology_id", "synonym"}}

ExpectedOutputs ==
    {[given |-> FALSE, items |-> <<>>]}
        \cup {[given |-> TRUE, items |-> it] : it \in ExpectedItems}

EvalOutputs ==
    {[type |-> "str", entities |-> <<>>]}
        \cup {[type |-> "ExtractionResult", entities |-> es] :
                es \in UNION {[1..k -> EvalEntities] : k \in 0..MaxEntities}}

\* One evaluation of one case output
InitEval ==
    /\ labelOf = TermTable
    /\ config = [ontologies |-> ConfigOntologies, max_search_results |-> 1]
    /\ adapters = {}
    /\ pc = "called"
    /\ \E e \in ExpectedOutputs, o \in EvalOutputs :
          call = [fn |-> "evaluate", expected_output |-> e, output |-> o]
    /\ backend = NoResponse
    /\ trace = <<>>
    /\ outcome = NoOutcome
    /\ prev = NoOutcome
    /\ entities = <<>>
    /\ annotators = <<>>
    /\ oracle = <<>>
    /\ result = NoBatchResult

Evaluate ==
    /\ pc = "called"
    /\ call.fn = "evaluate"
    /\ outcome' = Return(evaluate(call.expected_output, call.output))
    /\ pc' = "done"
    /\ UNCHANGED <<labelOf, config, adapters, call, backend, trace, prev, batchVars>>

NextEval == Evaluate

SpecEval == InitEval /\ [][NextEval]_vars

\* what a UniProt client call gives: None, "", " ", a text, or an exception
UniprotAnswers(text) ==
    {[kind |-> "none", text |-> <<>>], [kind |-> "raise", text |-> <<>>]}
        \cup {[kind |-> "text", text |-> t] : t \in {<<>>, <<" ">>, <<text>>}}

\* what get_ncbi_gene_info gives: None, the entry, or its error string
NcbiAnswers ==
    {[kind |-> "none", text |-> <<>>]}
        \cup {[kind |-> "text", text |-> t] :
                t \in {<<"NCBI Entrez Gene Information:">>,
                       <<"Error querying NCBI Entrez: ">>}}

GeneCalls ==
    [fn : {"get_gene_description"},
     id_is_uniprot : BOOLEAN,
     lookup : {"same", "accession"},
     retrieve : UniprotAnswers("R"),
     search : UniprotAnswers("S"),
     broad : UniprotAnswers("B"),
     ncbi : NcbiAnswers]

\* One get_gene_description call, for every answer of the two services
InitGene ==
    /\ labelOf = TermTable
    /\ config = [ontologies |-> ConfigOntologies, max_search_results |-> 1]
    /\ adapters = {}
    /\ pc = "called"
    /\ call \in GeneCalls
    /\ backend = NoResponse
    /\ trace = <<>>
    /\ outcome = NoOutcome
    /\ prev = NoOutcome
    /\ entities = <<>>
    /\ annotators = <<>>
    /\ oracle = <<>>
    /\ result = NoBatchResult

GetGeneDescription ==
    /\ pc = "called"
    /\ call.fn = "get_gene_description"
    /\ LET r == get_gene_description(call)
       IN  outcome' = r.outcome /\ trace' = r.trace
    /\ pc' = "done"
    /\ UNCHANGED <<labelOf, config, adapters, call, backend, prev, batchVars>>

NextGene == GetGeneDescription

SpecGene == InitGene /\ [][NextGene]_vars

\* a path: a missing file, or a PDF of some number of pages
PdfFiles ==
    {[exists |-> FALSE, num_pages |-> 0]}
        \cup {[exists |-> TRUE, num_pages |-> n] : n \in 0..MaxFilePages}

\* max_pages, page_limit_per_file: None or an int
PageBudgets ==
    {[given |-> FALSE, value |-> 0]}
        \cup {[given |-> TRUE, value |-> n] : n \in 0..MaxBudget}

\* One process_pdf_files call
InitPdf ==
    /\ labelOf = TermTable
    /\ config = [ontologies |-> ConfigOntologies, max_search_results |-> 1]
    /\ adapters = {}
    /\ pc = "called"
    /\ \E fs \in UNION {[1..k -> PdfFiles] : k \in 0..MaxFiles},
          m \in PageBudgets, l \in PageBudgets :
          call = [fn |-> "process_pdf_files", pdf_paths |-> fs,
                  max_pages |-> m, page_limit_per_file |-> l]
    /\ backend = NoResponse
    /\ trace = <<>>
    /\ outcome = NoOutcome
    /\ prev = NoOutcome
    /\ entities = <<>>
    /\ annotators = <<>>
    /\ oracle = <<>>
    /\ result = NoBatchResult

ProcessPdfFiles ==
    /\ pc = "called"
    /\ call.fn = "process_pdf_files"
    /\ outcome' = Return(process_pdf_files(call.pdf_paths, call.max_pages,
                                           call.page_limit_per_file))
    /\ pc' = "done"
    /\ UNCHANGED <<labelOf, config, adapters, call, backend, trace, prev, batchVars>>

NextPdf == ProcessPdfFiles

SpecPdf == InitPdf /\ [][NextPdf]_vars

\* config.ontologies / available_ontologies: without mondo, with it, go alone
AvailableOntologies ==
    { << <<"h", "p">>, <<"g", "o">> >>,
      << Mondo, <<"H", "P">> >>,
      << <<"b", "b">> >> }

\* one search of the router's output: "HP", "mondo", an ontology that
\* is never available, or no "ontology" key; a query "abab" or no "query" key
RouterItems ==
    [ontology : {<<"H", "P">>, Mondo, <<"a", "a">>, <<>>},
     has_query : BOOLEAN,
     query : {<<"a", "b", "a", "b">>}]

\* what query_preprocessor_agent.run gives: an exception, an output without
\* "searches", or an output with up to MaxRouted searches
RouterAnswers ==
    {[kind |-> "raise", has_searches |-> FALSE, searches |-> <<>>],
     [kind |-> "output", has_searches |-> FALSE, searches |-> <<>>]}
        \cup {[kind |-> "output", has_searches |-> TRUE, searches |-> ss] :
                ss \in UNION {[1..k -> RouterItems] : k \in 0..MaxRouted}}

RoutedOntologies == {<<"h", "p">>, Mondo, <<"g", "o">>}

\* the backend's answer per ontology: one term, nothing, or an error
RouteResponses ==
    {[fail |-> "none", at |-> "none", ids |-> <<"T1">>],
     [fail |-> "none", at |-> "none", ids |-> <<>>],
     [fail |-> "RuntimeError", at |-> "basic_search", ids |-> <<>>]}

RouteQuery == <<"b", "a">>

\* One preprocess_query or search_with_preprocessing call
InitRoute ==
    /\ labelOf = TermTable
    /\ config \in {[ontologies |-> a, max_search_results |-> 1] :
                      a \in AvailableOntologies}
    /\ adapters = {}
    /\ pc = "called"
    /\ \E r \in RouterAnswers :
          \/ /\ call = [fn |-> "preprocess_query", query |-> RouteQuery, router |-> r]
             /\ oracle = [o \in RoutedOntologies |-> NoResponse]
          \/ /\ call = [fn |-> "search_with_preprocessing", query |-> RouteQuery,
                         router |-> r]
             /\ oracle \in [RoutedOntologies -> RouteResponses]
    /\ backend = NoResponse
    /\ trace = <<>>
    /\ outcome = NoOutcome
    /\ prev = NoOutcome
    /\ entities = <<>>
    /\ annotators = <<>>
    /\ result = NoBatchResult

PreprocessQuery ==
    /\ pc = "called"
    /\ call.fn = "preprocess_query"
    /\ outcome' = Return(preprocess_query(call.query, config.ontologies, call.router))
    /\ pc' = "done"
    /\ UNCHANGED <<labelOf, config, adapters, call, backend, trace, prev, batchVars>>

SearchWithPreprocessing ==
    /\ pc = "called"
    /\ call.fn = "search_with_preprocessing"
    /\ LET r == search_with_preprocessing(call.query, call.router, config,
                                          oracle, adapters)
       IN  /\ outcome' = r.outcome
           /\ trace' = r.trace
           /\ adapters' = r.adapters
    /\ pc' = "done"
    /\ UNCHANGED <<labelOf, config, call, backend, prev, batchVars>>

NextRoute == PreprocessQuery \/ SearchWithPreprocessing

SpecRoute == InitRoute /\ [][NextRoute]_vars

\* template names a caller may give: the known ones and one that is not
TemplateNames == KnownTemplates \cup {"no.SuchTemplate"}

\* what the environment does during one call: whether ontogpt imports,
\* whether the engine constructor raises, whether the extraction raises
SpiresEnvs == [import_fails : BOOLEAN, engine_fails : BOOLEAN, extract_fails : BOOLEAN]

\* SPIRESDependencies with its default template; config is ctx.deps
InitSpires ==
    /\ labelOf = TermTable
    /\ config = [template_name |-> "biological_process.BiologicalProcess"]
    /\ adapters = {}
    /\ pc = "idle"
    /\ call = NoCall
    /\ backend = NoResponse
    /\ trace = <<>>
    /\ outcome = NoOutcome
    /\ prev = NoOutcome
    /\ entities = <<>>
    /\ annotators = <<>>
    /\ oracle = <<>>
    /\ result = NoBatchResult

\* call.before keeps ctx.deps.template_name as it was when the call began
ExtractKnowledgeFromText ==
    /\ pc \in {"idle", "done"}
    /\ \E t \in TemplateNames \cup {"None"}, env \in SpiresEnvs :
          LET r == extract_knowledge_from_text(config, t, env)
          IN  /\ call' = [fn |-> "extract_knowledge_from_text", template |-> t,
                          env |-> env, before |-> config.template_name]
              /\ outcome' = r.outcome
              /\ config' = r.deps
    /\ pc' = "done"
    /\ UNCHANGED <<labelOf, adapters, backend, trace, prev, batchVars>>

ChangeTemplate ==
    /\ pc \in {"idle", "done"}
    /\ \E t \in TemplateNames, env \in SpiresEnvs :
          LET r == change_template(config, t, env)
          IN  /\ call' = [fn |-> "change_template", template |-> t,
                          env |-> env, before |-> config.template_name]
              /\ outcome' = r.outcome
              /\ config' = r.deps
    /\ pc' = "done"
    /\ UNCHANGED <<labelOf, adapters, backend, trace, prev, batchVars>>

NextSpires == ExtractKnowledgeFromText \/ ChangeTemplate

SpecSpires == InitSpires /\ [][NextSpires]_vars

----------------------------------------------------------------------------
(* Properties of search (search_terms) *)

\* the call in progress was fn and has returned a list
ReturnedBy(fn) == pc = "done" /\ call.fn = fn /\ outcome.kind = "return"

\* the call got as far as the backend, which returned its matches
BackendReturned == trace # <<>> /\ trace[Len(trace)] = "labels"

\* the call got as far as the backend, which raised
BackendRaised ==
    backend.fail # "none" /\ trace # <<>> /\ trace[Len(trace)] = backend.at

\* the classified (non-sentinel) results of a returned search_terms call
ClassifiedResults ==
    IF ReturnedBy("search_terms") /\ outcome.value[1].match_type # "none"
        THEN Range(outcome.value)
    ELSE {}

\* a whitespace-delimited token of q longer than 3 characters occurs in l
\* (both already lower-cased)
LongTokenIn(q, l) ==
    \E i \in 1..Len(q), j \in 1..Len(q) :
        /\ j - i + 1 > 3
        /\ \A k \in i..j : q[k] \notin Whitespace
        /\ (i = 1 \/ q[i - 1] \in Whitespace)
        /\ (j = Len(q) \/ q[j + 1] \in Whitespace)
        /\ Contains(SubSeq(q, i, j), l)

(* C1: for every query q and backend label l with q.lower() == l.lower(), the
   result for that label is exact_label with confidence 0.95, never
   partial_label. *)
C1_LowerEqualIsExact ==
    \A r \in ClassifiedResults :
        (strip(call.query) # <<>> /\ lower(call.query) = lower(r.label))
            => r.match_type = "exact_label" /\ r.confidence = ConfExact

(* C2: if q.lower() is a proper substring of l.lower(), the result is
   partial_label with confidence 0.85, whether or not a query token also
   occurs in the label. *)
C2_ProperSubstringIsPartial ==
    \A r \in ClassifiedResults :
        (Contains(lower(call.query), lower(r.label))
            /\ lower(call.query) # lower(r.label))
            => r.match_type = "partial_label" /\ r.confidence = ConfPartial

\* a proper substring whose long token also occurs in the label
C2_Witness ==
    \E r \in ClassifiedResults :
        /\ Contains(lower(call.query), lower(r.label))
        /\ lower(call.query) # lower(r.label)
        /\ LongTokenIn(strip(lower(call.query)), lower(r.label))
        /\ r.match_type = "partial_label"

(* C3: a result whose label is neither equal to nor a superstring of the
   (lower-cased, trimmed) query is word_match with confidence 0.75 exactly
   when the label contains, case-insensitively, a whitespace-delimited query
   token longer than 3 characters. *)
C3_WordMatchIffLongToken ==
    \A r \in ClassifiedResults :
        LET q == strip(lower(call.query))
            l == lower(r.label)
        IN  (l # q /\ ~Contains(q, l))
                => /\ (r.match_type = "word_match") <=> LongTokenIn(q, l)
                   /\ (r.match_type = "word_match") => r.confidence = ConfWord

\* a label that shares a long token with the query without containing it
C3_Witness ==
    \E r \in ClassifiedResults :
        LET q == strip(lower(call.query))
            l == lower(r.label)
        IN  /\ l # q
            /\ ~Contains(q, l)
            /\ LongTokenIn(q, l)
            /\ r.match_type = "word_match"
            /\ r.confidence = ConfWord

(* C4: every non-sentinel result carries exactly one of the four
   classifications with the confidence fixed for it, and it is
   semantic_similarity / 0.65 exactly when none of the exact, substring and
   word-token conditions holds. *)
C4_OneOfFourWithItsConfidence ==
    \A r \in ClassifiedResults :
        LET q == strip(lower(call.query))
            l == lower(r.label)
        IN  /\ \/ r.match_type = "exact_label" /\ r.confidence = ConfExact
               \/ r.match_type = "partial_label" /\ r.confidence = ConfPartial
               \/ r.match_type = "word_match" /\ r.confidence = ConfWord
               \/ r.match_type = "semantic_similarity" /\ r.confidence = ConfSemantic
            /\ (r.match_type = "semantic_similarity")
                   <=> (l # q /\ ~Contains(q, l) /\ ~LongTokenIn(q, l))

\* a result with no lexical overlap at all, left to the backend's ranking
C4_Witness ==
    \E r \in ClassifiedResults :
        /\ r.match_type = "semantic_similarity"
        /\ r.confidence = ConfSemantic
        /\ strip(call.query) # <<>>
        /\ strip(r.label) # <<>>

(* C5: when the backend returns zero matches, search returns exactly one
   result: identifier "no_match", label "No matches found for '<query>'" with
   the caller's query, classification none, confidence 0.0. *)
C5_SentinelOnEmptyBackend ==
    (pc = "done" /\ call.fn = "search_terms" /\ BackendReturned /\ backend.ids = <<>>)
        => /\ outcome.kind = "return"
           /\ Len(outcome.value) = 1
           /\ outcome.value[1].id = "no_match"
           /\ outcome.value[1].label = <<"No matches found for '", call.query, "'">>
           /\ outcome.value[1].match_type = "none"
           /\ outcome.value[1].confidence = 0

\* the sentinel for a query that trimming or lower-casing would change
C5_Witness ==
    /\ ReturnedBy("search_terms")
    /\ BackendReturned
    /\ backend.ids = <<>>
    /\ strip(lower(call.query)) # call.query
    /\ strip(call.query) # <<>>
    /\ outcome.value[1].id = "no_match"

(* C6: for every limit n >= 1 and every backend response search returns at
   most n results, and when the backend returns nothing it returns exactly 1
   result (the sentinel) regardless of n. *)
C6_AtMostLimit ==
    /\ ReturnedBy("search_terms")
        => /\ config.max_search_results >= 1
               => Len(outcome.value) <= config.max_search_results
           /\ backend.ids = <<>>
               => Len(outcome.value) = 1 /\ outcome.value[1].id = "no_match"
    /\ (ReturnedBy("search_ontology_with_oak") /\ call.n >= 1)
        => Len(outcome.value) <= call.n

\* the backend had more matches than the limit and the output was cut to it
C6_Witness ==
    /\ ReturnedBy("search_terms")
    /\ strip(call.query) # <<>>
    /\ Len(backend.ids) > config.max_search_results
    /\ Len(outcome.value) = config.max_search_results

(* C7: the non-sentinel output of search is the backend's result sequence
   truncated to limit, in the backend's order: the i-th output identifier is
   the i-th backend identifier for every i below the cutoff. *)
C7_BackendOrderTruncated ==
    (ReturnedBy("search_terms") /\ backend.ids # <<>>)
        => /\ Len(outcome.value) = Min(Len(backend.ids), config.max_search_results)
           /\ \A i \in 1..Len(outcome.value) :
                /\ outcome.value[i].id = backend.ids[i]
                /\ outcome.value[i].label = labelOf[backend.ids[i]]

\* two different terms kept in order, a third cut off
C7_Witness ==
    /\ ReturnedBy("search_terms")
    /\ Len(backend.ids) > Len(outcome.value)
    /\ Len(outcome.value) >= 2
    /\ outcome.value[1].id # outcome.value[2].id
    /\ outcome.value[1].match_type # outcome.value[2].match_type

(* C8: search called with a vocabulary identifier that contains whitespace
   fails with the invalid-identifier validation error, raised before any
   adapter lookup or backend search. *)
C8_WhitespaceIdIsInvalidId ==
    (pc = "done" /\ call.fn = "search_terms" /\ strip(call.query) # <<>>
        /\ \E i \in 1..Len(call.ontology) : call.ontology[i] \in Whitespace)
        => /\ outcome = Raise("ModelRetry", MsgInvalidId)
           /\ trace = <<>>

(* C9: search called with an empty or whitespace-only query fails with a
   validation error before any backend call; it never returns a classified
   result list or a sentinel for such a query. *)
C9_BlankQueryIsRejected ==
    (pc = "done" /\ call.fn = "search_terms" /\ strip(call.query) = <<>>)
        => /\ outcome.kind = "raise"
           /\ trace = <<>>

(* C10: when the backend call raises a tolerated error (ValueError, URLError,
   KeyError), search does not raise and returns an empty list. *)
C10_ToleratedErrorGivesEmptyList ==
    (pc = "done" /\ strip(call.query) # <<>>
        /\ BackendRaised /\ backend.fail \in Tolerated)
        => outcome = Return(<<>>)

(* C11: backend failures keep two distinct outcomes: a tolerated-class error
   yields an empty list, any other backend exception reaches the caller as a
   raised error and is never turned into a list or a sentinel; search makes
   no second attempt. *)
C11_TwoTierBackendErrors ==
    (pc = "done" /\ strip(call.query) # <<>> /\ BackendRaised)
        => /\ Cardinality({i \in 1..Len(trace) : trace[i] = "basic_search"}) <= 1
           /\ Cardinality({i \in 1..Len(trace) : trace[i] = "get_adapter"}) <= 1
           /\ backend.fail \notin Tolerated => outcome.kind = "raise"
           /\ backend.fail \in Tolerated
                => outcome.kind = "return" /\ outcome.value = <<>>

(* C19: classification compares the lower-cased, trimmed query with the
   lower-cased, trimmed label: leading or trailing whitespace on the query
   or on the label never changes the classification. *)
C19_EdgeWhitespaceIgnored ==
    \A r \in ClassifiedResults :
        strip(call.query) # <<>>
            => LET c == Classify(strip(call.query), strip(r.label))
               IN  r.match_type = c.match_type /\ r.confidence = c.confidence

(* C20: adapters are memoized per vocabulary: the adapter of a vocabulary
   (the handle sqlite:obo:<lower-cased id>) is constructed at most once, so
   a call that constructs one finds no adapter of the same handle cached. *)
C20_HandleOpenedOnce ==
    (pc = "done" /\ call.fn = "search_terms"
        /\ (\E i \in 1..Len(trace) : trace[i] = "get_adapter")
        /\ call.ontology \in adapters)
        => \A k \in adapters \ {call.ontology} : lower(k) # lower(call.ontology)


----------------------------------------------------------------------------
(* Batch grounding: what the claims speak of *)

BatchDone == pc = "done" /\ call.fn = "ground_entities_with_template_annotators"

CountIn(seq, x) == Cardinality({p \in 1..Len(seq) : seq[p] = x})

MentionTexts == [i \in 1..Len(entities) |-> entities[i].text]

Vocabularies == [j \in 1..Len(annotators) |-> annotators[j][2]]

\* the backend gave at least one term for this text in this vocabulary
Succeeds(text, vocabulary) ==
    /\ oracle[<<text, vocabulary>>].fail = "none"
    /\ oracle[<<text, vocabulary>>].ids # <<>>

(* C12: the grounding searches every mention against every entry of the
   mapping exactly once, whatever the mention's type hint and whether or not
   an earlier entry matched: the searches made for a text in a vocabulary
   number the mentions with that text times the entries naming that
   vocabulary. *)
C12_SearchOncePerPair ==
    BatchDone
        => \A t \in BatchTexts, v \in BatchAnnotators :
              CountIn(result.searches, <<t, v>>)
                  = CountIn(MentionTexts, t) * CountIn(Vocabularies, v)

C12_Witness ==
    /\ BatchDone
    /\ Len(annotators) = 2
    /\ \E i \in 1..Len(entities) :
          /\ entities[i].entity_type = annotators[1][1]
          /\ Succeeds(entities[i].text, annotators[1][2])
          /\ CountIn(result.searches, <<entities[i].text, annotators[2][2]>>) > 0

MatchesOf(text) ==
    {k \in 1..Len(result.successful_matches) :
        result.successful_matches[k].entity = text}

Unmatched(text) == CountIn(result.no_matches, text) > 0

(* C13, as stated: whatever the mapping, a mention is in the unmatched list
   exactly when it has no successful match, so every mention is in one of the
   two lists. *)
C13_PartitionAnyMapping ==
    BatchDone
        => \A i \in 1..Len(entities) :
              Unmatched(entities[i].text) <=> MatchesOf(entities[i].text) = {}

(* C13, amended: when the mapping has at least one entry, a mention is in the
   unmatched list exactly when it has no successful match, and is then listed
   once per occurrence; with an empty mapping the call returns at once and
   both lists are empty. *)
C13_PartitionWhenMapped ==
    BatchDone
        => IF annotators = <<>>
               THEN result.successful_matches = <<>> /\ result.no_matches = <<>>
           ELSE /\ \A i \in 1..Len(entities) :
                      /\ Unmatched(entities[i].text)
                            <=> MatchesOf(entities[i].text) = {}
                      /\ Unmatched(entities[i].text)
                            => CountIn(result.no_matches, entities[i].text)
                                 = CountIn(MentionTexts, entities[i].text)
                /\ \A k \in 1..Len(result.no_matches) :
                      CountIn(MentionTexts, result.no_matches[k]) > 0

C13_Witness ==
    /\ BatchDone
    /\ Len(annotators) = 2
    /\ \E i, j \in 1..Len(entities) :
          /\ Unmatched(entities[i].text)
          /\ ~Unmatched(entities[j].text)
          /\ Succeeds(entities[j].text, annotators[1][2])
          /\ ~Succeeds(entities[j].text, annotators[2][2])

(* C14: no deduplication across vocabularies: for every mention text and
   every entry of the mapping whose vocabulary gave a term, the outcome holds
   one successful match per occurrence of the text, tagged with that entry's
   entity class and vocabulary; an entry whose vocabulary gave nothing adds
   none, and every successful match is the match of some entry. *)
C14_OneMatchPerMatchingVocabulary ==
    BatchDone
        => /\ \A i \in 1..Len(entities), j \in 1..Len(annotators) :
                Cardinality({k \in MatchesOf(entities[i].text) :
                    /\ result.successful_matches[k].entity_type = annotators[j][1]
                    /\ result.successful_matches[k].annotator = annotators[j][2]})
                  = IF Succeeds(entities[i].text, annotators[j][2])
                        THEN CountIn(MentionTexts, entities[i].text)
                    ELSE 0
           /\ \A k \in 1..Len(result.successful_matches) :
                /\ CountIn(MentionTexts, result.successful_matches[k].entity) > 0
                /\ \E j \in 1..Len(annotators) :
                      /\ result.successful_matches[k].entity_type = annotators[j][1]
                      /\ result.successful_matches[k].annotator = annotators[j][2]

C14_Witness ==
    /\ BatchDone
    /\ Len(annotators) = 2
    /\ \E i \in 1..Len(entities) :
          /\ CountIn(MentionTexts, entities[i].text) = 1
          /\ Succeeds(entities[i].text, annotators[1][2])
          /\ Succeeds(entities[i].text, annotators[2][2])
          /\ Cardinality(MatchesOf(entities[i].text)) = 2

RemoveAt(seq, k) == [p \in 1..(Len(seq) - 1) |-> IF p < k THEN seq[p] ELSE seq[p + 1]]

MatchesFor(r, text) == SelectSeq(r.successful_matches, LAMBDA m : m.entity = text)

UnmatchedFor(r, text) == SelectSeq(r.no_matches, LAMBDA t : t = text)

(* C15: batch independence: for the same backend and mapping, the outcome
   of the call without one of its mentions has, for every other mention text,
   the same successful matches and the same unmatched entries as the outcome
   of the call with it. *)
C15_BatchIndependence ==
    BatchDone
        => \A k \in 1..Len(entities) :
              LET without == ground_entities_with_template_annotators(
                                 RemoveAt(entities, k), annotators)
              IN  \A t \in BatchTexts \ {entities[k].text} :
                     /\ MatchesFor(result, t) = MatchesFor(without, t)
                     /\ UnmatchedFor(result, t) = UnmatchedFor(without, t)

C15_Witness ==
    /\ BatchDone
    /\ annotators # <<>>
    /\ \E k, i \in 1..Len(entities) :
          /\ entities[i].text # entities[k].text
          /\ k < i
          /\ MatchesFor(result, entities[k].text) # <<>>
          /\ UnmatchedFor(result, entities[i].text) # <<>>

FirstTerm(text, vocabulary) == oracle[<<text, vocabulary>>].ids[1]

IsFirstResult(m) ==
    /\ Succeeds(m.entity, m.annotator)
    /\ m.ontology_id = FirstTerm(m.entity, m.annotator)
    /\ m.ontology_label = labelOf[FirstTerm(m.entity, m.annotator)]

(* C17, as stated: every successful match is the first result of the search
   for its mention in its vocabulary, and carries the match type and the
   confidence the search classification gives that result. *)
C17_CarriesSearchClassification ==
    BatchDone
        => \A k \in 1..Len(result.successful_matches) :
              LET m == result.successful_matches[k]
              IN  /\ IsFirstResult(m)
                  /\ "match_type" \in DOMAIN m
                  /\ m.match_type = Classify(m.entity, m.ontology_label).match_type
                  /\ m.confidence = Classify(m.entity, m.ontology_label).confidence

(* C17, amended: every successful match is the first result of the search
   for its mention in its vocabulary, a term of the backend and never a
   placeholder; it carries no match type, and its confidence is "high" when
   the lower-cased mention is a substring of the lower-cased label and
   "medium" otherwise. *)
C17_FirstResultWithOwnConfidence ==
    BatchDone
        => \A k \in 1..Len(result.successful_matches) :
              LET m == result.successful_matches[k]
              IN  /\ IsFirstResult(m)
                  /\ m.ontology_id \in Ids
                  /\ DOMAIN m = {"entity", "entity_type", "ontology_id",
                                 "ontology_label", "annotator", "confidence"}
                  /\ m.confidence = IF Contains(lower(m.entity), lower(m.ontology_label))
                                        THEN "high" ELSE "medium"

C17_Witness ==
    /\ BatchDone
    /\ \E k, l \in 1..Len(result.successful_matches) :
          /\ Len(oracle[<<result.successful_matches[k].entity,
                          result.successful_matches[k].annotator>>].ids) = 2
          /\ result.successful_matches[k].confidence = "high"
          /\ result.successful_matches[l].confidence = "medium"

MatchListing ==
    LET lines == SelectSeq(result.summary, LAMBDA line : line[1] = "match")
    IN  [p \in 1..Len(lines) |-> lines[p][2]]

UnmatchedListing ==
    LET lines == SelectSeq(result.summary, LAMBDA line : line[1] = "unmatched")
    IN  [p \in 1..Len(lines) |-> lines[p][2]]

\* the listing is the entries of the first mention, then those of the second,
\* and so on, each mention having any number of entries
RECURSIVE ListedInOrder(_, _)
ListedInOrder(listing, mentions) ==
    IF listing = <<>> THEN TRUE
    ELSE IF mentions = <<>> THEN FALSE
    ELSE IF Head(listing) = Head(mentions)
        THEN ListedInOrder(Tail(listing), mentions)
    ELSE ListedInOrder(listing, Tail(mentions))

MatchingEntries(text) ==
    Cardinality({j \in 1..Len(annotators) : Succeeds(text, annotators[j][2])})

RECURSIVE ExpectedMatchListing(_)
ExpectedMatchListing(i) ==
    IF i = 0 THEN <<>>
    ELSE ExpectedMatchListing(i - 1)
            \o [p \in 1..MatchingEntries(entities[i].text) |-> entities[i].text]

(* C18: the summary lists mentions in input order: the successful-match
   lines are the lines of the first mention, then those of the second, and so
   on, and so are the unmatched lines; with a non-empty mapping the two
   listings are the matched entries and the unmatched mentions, mention by
   mention in input order. *)
C18_SummaryInInputOrder ==
    BatchDone
        => /\ ListedInOrder(MatchListing, MentionTexts)
           /\ ListedInOrder(UnmatchedListing, MentionTexts)
           /\ annotators # <<>>
                => /\ MatchListing = ExpectedMatchListing(Len(entities))
                   /\ UnmatchedListing
                        = SelectSeq(MentionTexts,
                                    LAMBDA t : MatchingEntries(t) = 0)

C18_Witness ==
    /\ BatchDone
    /\ Len(annotators) = 2
    /\ \E i \in 1..(Len(entities) - 1) :
          /\ entities[i].text # entities[i + 1].text
          /\ MatchingEntries(entities[i].text) = 2
          /\ MatchingEntries(entities[i + 1].text) = 2
    /\ Len(UnmatchedListing) = 0
    /\ Len(MatchListing) >= 4

(* C16: search is deterministic: when the same call is made a second time
   with the same arguments, limit and backend answer, its outcome is the
   outcome of the first call, whatever the first call and the calls before
   it left in the adapter cache. *)
C16_SameCallSameOutput ==
    (pc = "done" /\ prev # NoOutcome) => outcome = prev

C16_Witness ==
    /\ pc = "done"
    /\ prev # NoOutcome
    /\ call.fn = "search_terms"
    /\ call.ontology \in adapters
    /\ \A i \in 1..Len(trace) : trace[i] # "get_adapter"
    /\ outcome.kind = "return"
    /\ Len(outcome.value) = 2
    /\ outcome.value[1].match_type # outcome.value[2].match_type

InAllowList(ontology_id) ==
    \E i \in 1..Len(config.ontologies) :
        lower(ontology_id) = lower(config.ontologies[i])

(* C24: search_terms rejects an ontology id that is not in the configured
   allow-list, compared case-insensitively, with a retry error raised before
   any adapter is looked up or any backend search is started; the error
   reaches the caller as it was raised, not wrapped as a search error; an id
   that is in the allow-list in another case is not rejected so. *)
C24_NotAllowedRejectedFirst ==
    (pc = "done" /\ call.fn = "search_terms")
        => /\ ~InAllowList(call.ontology)
                => /\ outcome.kind = "raise"
                   /\ outcome.error[1] = "ModelRetry"
                   /\ outcome.error[2] # MsgSearchError
                   /\ ~Contains(<<" ">>, call.ontology)
                        => outcome.error[2] = MsgNotAllowed
                   /\ trace = <<>>
                   /\ call.ontology \notin adapters
           /\ InAllowList(call.ontology)
                => outcome # Raise("ModelRetry", MsgNotAllowed)

C24_Witness ==
    /\ pc = "done"
    /\ call.fn = "search_terms"
    /\ ~InAllowList(call.ontology)
    /\ ~Contains(<<" ">>, call.ontology)
    /\ backend.ids # <<>>
    /\ adapters # {}
    /\ outcome = Raise("ModelRetry", MsgNotAllowed)

\* the search of this text in this vocabulary raised, or returned no list
FailsFor(text, vocabulary) == oracle[<<text, vocabulary>>].fail # "none"

(* C27: a search that raises, or that returns no list at all, does not
   abort the grounding: every mention is still searched in every entry of the
   mapping, the matches of the other entries are recorded, and a mention with
   a failed search is unmatched exactly when no entry matched it. *)
C27_FailedSearchIsSkipped ==
    (BatchDone /\ annotators # <<>>)
        => /\ Len(result.searches) = Len(entities) * Len(annotators)
           /\ \A i \in 1..Len(entities) :
                (\E j \in 1..Len(annotators) :
                    FailsFor(entities[i].text, annotators[j][2]))
                => /\ \A j \in 1..Len(annotators) :
                        /\ CountIn(result.searches,
                                   <<entities[i].text, annotators[j][2]>>) > 0
                        /\ Succeeds(entities[i].text, annotators[j][2])
                             => \E k \in MatchesOf(entities[i].text) :
                                   result.successful_matches[k].annotator
                                       = annotators[j][2]
                   /\ Unmatched(entities[i].text)
                        <=> \A j \in 1..Len(annotators) :
                               ~Succeeds(entities[i].text, annotators[j][2])

C27_Witness ==
    /\ BatchDone
    /\ Len(annotators) = 2
    /\ \E i, l \in 1..Len(entities) :
          /\ oracle[<<entities[i].text, annotators[1][2]>>].fail = "RuntimeError"
          /\ Succeeds(entities[i].text, annotators[2][2])
          /\ ~Unmatched(entities[i].text)
          /\ i < l
          /\ oracle[<<entities[l].text, annotators[1][2]>>].fail = "ValueError"
          /\ ~Succeeds(entities[l].text, annotators[2][2])
          /\ Unmatched(entities[l].text)

(* C21: the evaluator checks whether the expected entity is in the
   extraction result: without an expected output the score is 1.0; with one,
   the score is 1.0 exactly when some entity of the output has every expected
   key with its expected value, and 0.0 otherwise. *)
C21_ScoreIffSomeEntityMatches ==
    (pc = "done" /\ call.fn = "evaluate")
        => LET expected == call.expected_output
               ents == call.output.entities
               found == \E i \in 1..Len(ents) :
                           \A k \in DOMAIN expected.items :
                               k \in DOMAIN ents[i] /\ ents[i][k] = expected.items[k]
           IN  IF ~expected.given THEN outcome = Return("1.0")
               ELSE outcome = Return(IF found THEN "1.0" ELSE "0.0")

Called(name) == \E i \in 1..Len(trace) : trace[i] = name

GaveText(resp) == resp.kind = "text" /\ strip(resp.text) # <<>>

(* C22: the description falls back to NCBI only when UniProt yielded
   nothing: a non-empty text returned by the UniProt retrieve or by a UniProt
   search that was made is part of the returned description, NCBI is asked
   only when no UniProt call gave a text, and the 'No gene information found'
   retry error is raised only when neither source gave anything. *)
C22_UniprotFirstNcbiFallback ==
    (pc = "done" /\ call.fn = "get_gene_description")
        => LET given == {r \in {call.retrieve, call.search, call.broad} :
                            /\ GaveText(r)
                            /\ \/ r = call.retrieve /\ Called("retrieve")
                               \/ r = call.search /\ Called("search")
                               \/ r = call.broad /\ Called("search_broad")}
           IN  /\ (given # {} /\ outcome.kind = "return")
                    => \E r \in given : outcome.value.uniprot = r.text
               /\ Called("get_ncbi_gene_info") => given = {}
               /\ outcome = Raise("ModelRetry", MsgNoGeneInfo)
                    => given = {} /\ call.ncbi.kind = "none"

RECURSIVE SumPages(_)
SumPages(out) == IF out = <<>> THEN 0 ELSE Head(out).pages + SumPages(Tail(out))

PagesPerFile(out) == [k \in 1..Len(out) |-> out[k].pages]

(* C23: the page budgets are respected for every list of files: the pages
   extracted over all files never exceed max_pages when it is given, no file
   contributes more than page_limit_per_file pages when it is given, and a
   missing file is skipped: it contributes nothing and the outcome is that of
   the call without the missing files. *)
C23_PageBudgetsRespected ==
    (pc = "done" /\ call.fn = "process_pdf_files")
        => /\ call.max_pages.given
                => SumPages(outcome.value) <= call.max_pages.value
           /\ call.page_limit_per_file.given
                => \A k \in 1..Len(outcome.value) :
                      outcome.value[k].pages <= call.page_limit_per_file.value
           /\ \A k \in 1..Len(outcome.value) :
                /\ call.pdf_paths[outcome.value[k].file].exists
                /\ outcome.value[k].pages
                      <= call.pdf_paths[outcome.value[k].file].num_pages
           /\ PagesPerFile(outcome.value)
                = PagesPerFile(process_pdf_files(
                      SelectSeq(call.pdf_paths, LAMBDA f : f.exists),
                      call.max_pages, call.page_limit_per_file))

\* the search of this routed pair gives results: the ontology is allowed and
\* the backend does not fail
RoutedSearchSucceeds(pair) ==
    /\ InAllowList(pair[1])
    /\ ~Contains(<<" ">>, pair[1])
    /\ oracle[pair[1]].fail = "none"

\* what the search of a successful pair lists: its first term, or the placeholder
RECURSIVE ExpectedRouted(_)
ExpectedRouted(pairs) ==
    IF pairs = <<>> THEN <<>>
    ELSE (IF RoutedSearchSucceeds(Head(pairs))
              THEN <<[id |-> IF oracle[Head(pairs)[1]].ids = <<>> THEN "no_match"
                             ELSE oracle[Head(pairs)[1]].ids[1],
                      ontology |-> upper(Head(pairs)[1]),
                      preprocessed_query |-> Head(pairs)[2]]>>
          ELSE <<>>)
         \o ExpectedRouted(Tail(pairs))

(* C25: search_with_preprocessing isolates the failures of routed searches:
   it returns a list and never raises; every routed pair is searched, in
   routing order, whether or not an earlier one failed; and the list is the
   results of the pairs whose search succeeded, in routing order, each with
   the original query and its refined query. *)
C25_FailedRoutedSearchIsSkipped ==
    (pc = "done" /\ call.fn = "search_with_preprocessing")
        => /\ outcome.kind = "return"
           /\ trace = preprocess_query(call.query, config.ontologies, call.router)
           /\ [k \in 1..Len(outcome.value) |->
                  [id |-> outcome.value[k].id,
                   ontology |-> outcome.value[k].ontology,
                   preprocessed_query |-> outcome.value[k].preprocessed_query]]
                = ExpectedRouted(trace)
           /\ \A k \in 1..Len(outcome.value) :
                  outcome.value[k].original_query = call.query

C25_Witness ==
    /\ pc = "done"
    /\ call.fn = "search_with_preprocessing"
    /\ Len(trace) = 2
    /\ ~RoutedSearchSucceeds(trace[1])
    /\ RoutedSearchSucceeds(trace[2])
    /\ Len(outcome.value) = 1
    /\ outcome.value[1].id = "T1"

(* C26: every (ontology, query) pair preprocess_query returns names an
   ontology of available_ontologies, compared case-insensitively, whether the
   pairs come from the router, from the default routing or from the
   exception fallback. *)
C26_RoutedOntologyIsAvailable ==
    (pc = "done" /\ call.fn = "preprocess_query")
        => \A k \in 1..Len(outcome.value) : InAllowList(outcome.value[k][1])

(* C28: a template override of extract_knowledge_from_text is temporary:
   when the call has returned, with success or with a failure, including a
   failure to create the engine, ctx.deps.template_name is what it was before
   the call. *)
C28_TemplateOverrideIsTemporary ==
    (pc = "done" /\ call.fn = "extract_knowledge_from_text")
        => config.template_name = call.before

(* C29: change_template updates ctx.deps.template_name only when the
   requested template validates: on success template_name is the requested
   name and old_template is the name before the call; on failure the result
   has success False and template_name is unchanged; the call succeeds
   exactly when the template is known and the loader can be imported. *)
C29_TemplateChangedOnlyWhenValid ==
    (pc = "done" /\ call.fn = "change_template")
        => /\ outcome.kind = "return"
           /\ outcome.value.success
                <=> (call.template \in KnownTemplates /\ ~call.env.import_fails)
           /\ IF outcome.value.success
                  THEN /\ config.template_name = call.template
                       /\ outcome.value.old_template = call.before
                       /\ outcome.value.new_template = call.template
              ELSE config.template_name = call.before

C29_Witness ==
    /\ pc = "done"
    /\ call.fn = "change_template"
    /\ ~outcome.value.success
    /\ call.template \notin KnownTemplates
    /\ call.before # "biological_process.BiologicalProcess"
    /\ call.template # call.before
    /\ config.template_name = call.before

====
